---- MODULE Spec2Model ----
(***************************************************************************)
(* The video compositing pipeline of the UGC backend: the upload routes,   *)
(* processVideo with its job monitor (errorOccurred, lastProgress, the     *)
(* 30 s watchdog interval), delivery with res.sendFile and the deletion of *)
(* the temporary files in uploads/.                                        *)
(*                                                                         *)
(* Routes modelled:                                                        *)
(*   "upload"   POST /upload of the current server (monitor, output        *)
(*              validation, unlinkSync wrapped in try/catch)               *)
(*   "uploadV1" POST /upload of the earlier server files (no monitor, no   *)
(*              validation, bare unlinkSync)                               *)
(*   "blob"     the transcoding POST /api/upload-blob (input written by    *)
(*              the handler, no monitor, no validation, bare unlinkSync)   *)
(* The exec-based variant of the blob route has the same handler flow with *)
(* a single callback (an 'error' or an 'end'); the variant that only sends *)
(* the input back runs no transcode and is not part of the pipeline.       *)
(*                                                                         *)
(* The repository holds two generations of the server.  The current one    *)
(* mounts "upload" and the blob router, so their requests run in the same  *)
(* process; the earlier server files have "uploadV1" alone.                *)
(*                                                                         *)
(* The transcoder (fluent-ffmpeg command), ffprobe, the file system and    *)
(* the client connection are the environment: their events and results are *)
(* chosen nondeterministically.  The transcoder emits 'start' when its     *)
(* process is spawned, 'progress' and 'stderr' while it runs and 'end'     *)
(* when it exits; 'error' can come at any time and any number of times,    *)
(* also before 'start', and 'start' and 'end' can still follow an 'error'  *)
(* (the 'end' handler itself provides for that).                           *)
(*                                                                         *)
(* One action is one turn of the Node event loop: the callback that runs   *)
(* plus the promise continuations (await / catch) it makes runnable, which *)
(* run before any other callback.                                          *)
(*                                                                         *)
(* Before a handler runs, upload.single('video') decides on the file part: *)
(* the fileFilter of the /upload routes (the blob router has none), then   *)
(* limits.fileSize; a refusal goes to the error handling middleware.       *)
(*                                                                         *)
(* Spec is the request pipeline.  SpecFn applies the functions without     *)
(* state (the frame and audio selection, getVideoInfo, getVideoDuration,   *)
(* the length of the output of the transcoder command) once to any input   *)
(* and records the application in `call`.  SpecLive is Spec with the       *)
(* fairness that the environment's callbacks give the pipeline.            *)
(***************************************************************************)
EXTENDS Integers, Sequences, FiniteSets, TLC

\* ---- bounds ------------------------------------------------------------
NumReqs == 2
MaxSuffix == 2
\* the longest video or audio track, in seconds
MaxDuration == 3

Reqs == 1..NumReqs
\* a suffix stands for one value of Date.now() + '-' + Math.round(Math.random() * 1E9)
Suffixes == 1..MaxSuffix
Routes == {"upload", "uploadV1", "blob"}
Servers == {"current", "legacy"}
\* app.post('/upload', ...) and app.use('/api', blobUploadRouter) of each server file
RoutesOf(sv) == IF sv = "current" THEN {"upload", "blob"} ELSE {"uploadV1"}
Contents == {"absent", "empty", "partial", "complete"}
\* progress.percent as reported by the transcoder, when it is defined
Percents == {0, 50}

\* ---- paths ---------------------------------------------------------------
\* multer's storage.filename: file.fieldname + '-' + uniqueSuffix + extname
FileName(s) == <<"video", s, "ext">>

\* a storage that names the upload as the handler names the output
InputPathProcessed(rt, s) == <<"uploads", "processed">> \o FileName(s)

\* req.file.path (disk storage) or path.join('uploads', `input-${uniqueSuffix}.mp4`)
InputPath(rt, s) ==
    IF rt = "blob" THEN <<"uploads", "input", s, "mp4">>
    ELSE <<"uploads">> \o FileName(s)

OutputPathShared(rt, s) == <<"uploads", "processed", "mp4">>

\* path.join('uploads', `processed-${req.file.filename}`) or `processed-${uniqueSuffix}.mp4`
OutputPath(rt, s) ==
    IF rt = "blob" THEN <<"uploads", "processed", s, "mp4">>
    ELSE <<"uploads", "processed">> \o FileName(s)

NoPath == <<>>

\* every path under uploads/ that a handler can name
AllPaths ==
    {InputPath(rt, s) : rt \in Routes, s \in Suffixes}
        \cup {OutputPath(rt, s) : rt \in Routes, s \in Suffixes}
        \cup {OutputPathShared(rt, s) : rt \in Routes, s \in Suffixes}

\* ---- route properties ----------------------------------------------------
\* the current /upload wraps both unlinkSync calls in try/catch; the others do not
GuardedUnlink(rt) == rt = "upload"

\* only the current /upload has the job monitor (errorOccurred, watchdog, validation)
HasMonitor(rt) == rt = "upload"

\* multer({ storage, limits, fileFilter }) of the /upload routes; the blob router's
\* multer has memoryStorage and limits only
HasFileFilter(rt) == rt # "blob"
DiskStorage(rt) == rt # "blob"

\* ---- the uploaded file as multer presents it --------------------------------
\* Strings that the code inspects are sequences of characters.
Mimetypes ==
    { <<"v","i","d","e","o","/","m","p","4">>,
      <<"v","i","d","e","o","/","q","u","i","c","k","t","i","m","e">>,
      <<"a","u","d","i","o","/","m","p","4">>,
      <<"t","e","x","t","/","p","l","a","i","n">> }

OriginalNames ==
    { <<"a",".","m","p","4">>,
      <<"a",".","M","P","4">>,
      <<"a",".","m","o","v">>,
      <<"a",".","t","x","t">>,
      <<"m","p","4",".","t","x","t">> }

\* limits.fileSize: 100 * 1024 * 1024
FileSizeLimit == 100 * 1024 * 1024

Sizes == {1, FileSizeLimit, FileSizeLimit + 1}

Uploads == [mimetype : Mimetypes, originalname : OriginalNames, size : Sizes]

\* const filetypes = /mp4|mov|avi|wmv|flv|mkv|webm/
Filetypes ==
    { <<"m","p","4">>, <<"m","o","v">>, <<"a","v","i">>, <<"w","m","v">>,
      <<"f","l","v">>, <<"m","k","v">>, <<"w","e","b","m">> }

Contains(str, t) ==
    \E i \in 1..(Len(str) - Len(t) + 1) : SubSeq(str, i, i + Len(t) - 1) = t

\* filetypes.test(str): the pattern is not anchored, any occurrence matches
Test(str) == \E t \in Filetypes : Contains(str, t)

LastDot(name) ==
    LET dots == {i \in 1..Len(name) : name[i] = "."}
    IN  IF dots = {} THEN 0 ELSE CHOOSE i \in dots : \A j \in dots : j <= i

\* path.extname: from the last '.' on, empty when there is none or the name starts with it
ExtName(name) ==
    IF LastDot(name) <= 1 THEN <<>> ELSE SubSeq(name, LastDot(name), Len(name))

\* String.prototype.toLowerCase, for the letters that occur in OriginalNames
ToLowerCase(str) ==
    [i \in 1..Len(str) |->
        CASE str[i] = "M" -> "m"
          [] str[i] = "P" -> "p"
          [] OTHER -> str[i]]

\* fileFilter: cb(null, true) when mimetype && extname, else cb(new Error(...))
FileFilter(up) ==
    /\ Test(up.mimetype)
    /\ Test(ToLowerCase(ExtName(up.originalname)))

\* the class of the error object that reaches the error handling middleware
FilterError == "Error"
LimitError == "MulterError"

\* app.use((err, req, res, next) => ...): 400 for a multer.MulterError, else 500
ErrorMiddleware(err) == IF err = "MulterError" THEN 400 ELSE 500

\* what upload.single('video') does with the file part
Boundary(rt, up) ==
    IF HasFileFilter(rt) /\ ~FileFilter(up) THEN "filtered"
    ELSE IF up.size > FileSizeLimit THEN "tooLarge"
    ELSE "accepted"

\* what can happen to an upload on the route
Outcomes(rt) == {Boundary(rt, up) : up \in Uploads}

\* ---- the form fields and the asset resolver ---------------------------------
\* a field that the request does not carry
Undefined == "(undefined)"

\* values of the text fields isDesktop / isMobile of the multipart form
FlagValues == {Undefined, "true", "false", "1"}
AudioIds == {Undefined, "", "1", "2", "3", "4", "5", "6"}

\* req.body
Bodies == [isDesktop : FlagValues, isMobile : FlagValues, audioId : AudioIds]

FrameDesktop == "assets/images/frame-desktop.png"
FrameMobile == "assets/images/frame-mobile.png"

\* const isDesktop = req.body.isDesktop === 'true'
isDesktop(body) == body.isDesktop = "true"

\* const isMobile = req.body.isMobile === 'true' || req.body.isMobile === true
\* (a text field of a multipart form is never the boolean)
isMobile(body) == body.isMobile = "true"

\* The frame that processVideo gives to the transcoder:
\*   current /upload   isDesktop ? frame-desktop : frame-mobile
\*   blob route        isMobile ? frame-mobile : frame-desktop
\*   earlier /upload   .input('assets/images/frame-mobile.png'), isMobile is not used
framePath(rt, body) ==
    CASE rt = "upload" -> IF isDesktop(body) THEN FrameDesktop ELSE FrameMobile
      [] rt = "blob" -> IF isMobile(body) THEN FrameMobile ELSE FrameDesktop
      [] OTHER -> FrameMobile

\* JavaScript truthiness of a field value (undefined and '' are falsy)
TruthyText(v) == v \notin {Undefined, ""}

DefaultAudioNone(rt) == Undefined

\* let audioPath = '...' // Default audio
DefaultAudio(rt) ==
    IF rt = "blob" THEN "assets/audio/tractor_ace.wav"
    ELSE "assets/audio/jingle-dummy.wav"

\* the ids that the route's if / else-if chain tests
KnownAudioIds(rt) == IF rt = "blob" THEN {"1", "2", "3", "4", "5"} ELSE {"1", "2", "3"}

\* const audioId = req.body.audioId || '1' (current /upload), req.body.audioId (others)
audioId(rt, body) ==
    IF rt = "upload" /\ ~TruthyText(body.audioId) THEN "1" ELSE body.audioId

\* the if / else-if chain over audioId; without a match the default stays
audioPath(rt, body) ==
    LET id == audioId(rt, body) IN
    IF rt = "blob"
    THEN CASE id = "1" -> "assets/audio/tractor.mp3"
           [] id = "2" -> "assets/audio/ace.mp3"
           [] id = "3" -> "assets/audio/tamil.wav"
           [] id = "4" -> "assets/audio/telugu.wav"
           [] id = "5" -> "assets/audio/kannada.wav"
           [] OTHER -> DefaultAudio(rt)
    ELSE CASE id = "1" -> "assets/audio/jingle-dummy.wav"
           [] id = "2" -> "assets/audio/jingle-dummy.wav"
           [] id = "3" -> "assets/audio/jingle-dummy.wav"
           [] OTHER -> DefaultAudio(rt)

AudioAssets ==
    {"assets/audio/jingle-dummy.wav", "assets/audio/tractor_ace.wav",
     "assets/audio/tractor.mp3", "assets/audio/ace.mp3", "assets/audio/tamil.wav",
     "assets/audio/telugu.wav", "assets/audio/kannada.wav"}

\* ---- the media prober -------------------------------------------------------
\* What ffmpeg.ffprobe hands to its callback.  A duration is the text ffprobe
\* printed for the field: a numeric text arrives as a Number, any other text
\* ('N/A') as that string, a missing field as undefined.
Widths == {360, 640}
Heights == {360, 640}
RotateTags == {Undefined, "0", "90", "180", "270"}
StreamDurations == {Undefined, "N/A", "0", "5.0"}
FormatDurations == {"5.0", "7.5"}

\* err, and of metadata: whether streams has a video stream, that stream's width,
\* height, tags.rotate and duration, and format.duration
Metadatas ==
    [err : BOOLEAN, hasVideo : BOOLEAN, width : Widths, height : Heights,
     rotate : RotateTags, duration : StreamDurations, format_duration : FormatDurations]

Rejected == [status |-> "rejected", width |-> 0, height |-> 0, duration |-> Undefined]

widthSwapped(md) == md.height

\* width: videoStream.width
width(md) == md.width

\* height: videoStream.height
height(md) == md.height

\* getVideoInfo (getVideoDimensions on the other routes, which has no duration)
getVideoInfo(rt, md) ==
    IF md.err \/ ~md.hasVideo THEN Rejected
    ELSE [status |-> "resolved", width |-> width(md), height |-> height(md),
          duration |-> IF rt = "upload" THEN md.format_duration ELSE Undefined]

\* the options of the scale filter that sizes the frame: w: videoInfo.width, h: videoInfo.height
ScaleOptions(info) == [w |-> info.width, h |-> info.height]

\* JavaScript truthiness of a duration: undefined and the Number 0 are falsy,
\* a non-empty string is truthy
TruthyDuration(d) == d \notin {Undefined, "0"}

\* a || b
Or(a, b) == IF TruthyDuration(a) THEN a ELSE b

\* getVideoDuration: videoStream.duration || metadata.format.duration on the current
\* /upload, videoStream.duration on the other routes
getVideoDuration(rt, md) ==
    IF md.err \/ ~md.hasVideo THEN Rejected
    ELSE [status |-> "resolved", width |-> 0, height |-> 0,
          duration |-> IF rt = "upload" THEN Or(md.duration, md.format_duration)
                       ELSE md.duration]

\* ---- the transcoder command ----------------------------------------------------
\* The command each processVideo builds.  "blobMix" is the blob router's version that
\* runs ffmpeg through exec and mixes the track with the video's own audio.
Commands == {"upload", "uploadV1", "blob", "blobMix"}
CommandsOf(sv) == IF sv = "current" THEN {"upload", "blob", "blobMix"} ELSE {"uploadV1"}

\* durations in whole seconds; an input that is looped without end never ends
Durations == 1..MaxDuration
Endless == MaxDuration + 1
MinD(a, b) == IF a <= b THEN a ELSE b
MaxD(a, b) == IF a >= b THEN a ELSE b

\* the options of a command that decide how long its output lasts:
\*   loopFrame       inputOptions(['-loop 1']) on the frame image
\*   overlayShortest shortest: 1 in the options of the overlay filter
\*   loopAudio       -stream_loop -1 before the audio input
\*   amixLongest     the audio is [0:a][1:a]amix=inputs=2:duration=longest
\*   shortest        '-shortest' among the output options
\*   limit           -t ${duration} among the output options
CommandOptions(cmd) ==
    CASE cmd = "upload" ->
           [overlay |-> TRUE, loopFrame |-> TRUE, overlayShortest |-> TRUE,
            loopAudio |-> FALSE, amixLongest |-> FALSE, shortest |-> FALSE, limit |-> FALSE]
      [] cmd \in {"uploadV1", "blob"} ->
           [overlay |-> TRUE, loopFrame |-> FALSE, overlayShortest |-> FALSE,
            loopAudio |-> FALSE, amixLongest |-> FALSE, shortest |-> TRUE, limit |-> FALSE]
      [] cmd = "blobMix" ->
           [overlay |-> FALSE, loopFrame |-> FALSE, overlayShortest |-> FALSE,
            loopAudio |-> TRUE, amixLongest |-> TRUE, shortest |-> FALSE, limit |-> TRUE]

\* the video stream of the output: the overlay filter follows its main input (the
\* uploaded video) and, with shortest: 1, ends with whichever input ends first; a frame
\* image that is not looped is held for the whole of the main input
VideoStream(o, v) ==
    IF o.overlay /\ o.overlayShortest /\ o.loopFrame THEN MinD(v, Endless) ELSE v

\* the audio stream of the output: the track (-map 2:a), or the mix of the video's own
\* audio with the track, which lasts as long as the longer of the two
AudioStream(o, v, a) ==
    LET track == IF o.loopAudio THEN Endless ELSE a
    IN  IF o.amixLongest THEN MaxD(v, track) ELSE track

\* how long the output file lasts for a video of v seconds and a track of a seconds:
\* ffmpeg writes until every mapped stream has ended, with -shortest until the first
\* has, and in no case past -t
OutputDuration(cmd, v, a) ==
    LET o == CommandOptions(cmd)
        muxed == IF o.shortest THEN MinD(VideoStream(o, v), AudioStream(o, v, a))
                 ELSE MaxD(VideoStream(o, v), AudioStream(o, v, a))
    IN  IF o.limit THEN MinD(muxed, v) ELSE muxed

NoCall == [fn |-> "none", route |-> "none", arg |-> Undefined, out |-> Undefined]

VARIABLES
    server,        \* which server file is running
    pc,            \* position of each request's handler
    route,         \* the route the request arrived on
    suffix,        \* its uniqueSuffix
    files,         \* uploads/: path -> content
    promise,       \* the promise processVideo returns: none/pending/resolved/rejected
    errorOccurred, \* monitor flag
    lastProgress,  \* monitor: last progress.percent
    timer,         \* progressTimeout: unset / active / cleared
    started,       \* 'start' was emitted
    progSince,     \* a progress event was observed since the last tick (or start)
    tickBit,       \* flips at every watchdog tick
    probed,        \* the latest tick logged the warning and probed the input
    resp,          \* status of the response on the wire: 0 (none), 200, 400, 500
    sentPath,      \* the path handed to res.sendFile
    deliv,         \* result of sendFile: none / ok / failed
    inUnlink,      \* unlinkSync(inputPath) calls
    outUnlink,     \* unlinkSync(outputPath) calls
    transcodes,    \* command.save(outputPath) calls
    terminals,     \* the kinds of terminal event ('error', 'end') emitted so far, in
                   \* the order of their first emission
    endContent,    \* content of the output file as the 'end' handler first saw it
    crashed,       \* an exception escaped a callback: the process is gone
    probeFailed,   \* getVideoInfo / getVideoDuration rejected for the request
    call           \* the latest application of one of the pure functions

vars == <<server, pc, route, suffix, files, promise, errorOccurred, lastProgress, timer,
          started, progSince, tickBit, probed, resp, sentPath, deliv,
          inUnlink, outUnlink, transcodes, terminals, endContent, crashed,
          probeFailed, call>>

monitorVars == <<errorOccurred, lastProgress, timer, started, progSince, tickBit, probed>>

\* the state of the request pipeline: everything but `call`
pipelineVars == <<server, pc, route, suffix, files, promise, monitorVars, resp, sentPath,
                  deliv, inUnlink, outUnlink, transcodes, terminals, endContent, crashed,
                  probeFailed>>

Init ==
    /\ server \in Servers
    /\ pc = [r \in Reqs |-> "idle"]
    /\ route = [r \in Reqs |-> "none"]
    /\ suffix = [r \in Reqs |-> 0]
    /\ files = [p \in AllPaths |-> "absent"]
    /\ promise = [r \in Reqs |-> "none"]
    /\ errorOccurred = [r \in Reqs |-> FALSE]
    /\ lastProgress = [r \in Reqs |-> 0]
    /\ timer = [r \in Reqs |-> "unset"]
    /\ started = [r \in Reqs |-> FALSE]
    /\ progSince = [r \in Reqs |-> FALSE]
    /\ tickBit = [r \in Reqs |-> 0]
    /\ probed = [r \in Reqs |-> FALSE]
    /\ resp = [r \in Reqs |-> 0]
    /\ sentPath = [r \in Reqs |-> NoPath]
    /\ deliv = [r \in Reqs |-> "none"]
    /\ inUnlink = [r \in Reqs |-> 0]
    /\ outUnlink = [r \in Reqs |-> 0]
    /\ transcodes = [r \in Reqs |-> 0]
    /\ terminals = [r \in Reqs |-> <<>>]
    /\ endContent = [r \in Reqs |-> "none"]
    /\ crashed = FALSE
    /\ probeFailed = [r \in Reqs |-> FALSE]
    /\ call = NoCall

InP(r) == InputPath(route[r], suffix[r])
OutP(r) == OutputPath(route[r], suffix[r])

\* the first terminal event of r's transcoder: none / error / end
FirstTerminal(r) == IF terminals[r] = <<>> THEN "none" ELSE Head(terminals[r])
Noted(seq, e) == IF \E i \in 1..Len(seq) : seq[i] = e THEN seq ELSE Append(seq, e)

\* ---- promise semantics -----------------------------------------------------
SettleOverwrite(p, new) == new

\* resolve()/reject() of `new Promise((resolve, reject) => ...)`: only the first call counts
Settle(p, new) == IF p = "pending" THEN new ELSE p

\* the job outcome the monitor exposes
Outcome(r) ==
    CASE promise[r] = "pending" -> "Running"
      [] promise[r] = "resolved" -> "Succeeded"
      [] promise[r] = "rejected" -> "Failed"
      [] OTHER -> "None"

\* ---- the request boundary -----------------------------------------------
AfterFailureRetry == "probeInfo"

\* catch (error) { res.status(500).json({ error: error.message }) }: the handler ends
AfterFailure == "done"

\* fs.unlinkSync(p) succeeds only on an existing file, and may fail on one (EPERM, EBUSY)
UnlinkOk(fs, p, u) == u /\ fs[p] # "absent"

ContinueNoUnlink(r, how, u, fs) ==
    IF how = "rejected"
    THEN [pc |-> AfterFailure, resp |-> 500, files |-> fs,
          inUnlink |-> inUnlink[r], sentPath |-> sentPath[r]]
    ELSE [pc |-> "sending", resp |-> 0, files |-> fs,
          inUnlink |-> inUnlink[r], sentPath |-> OutP(r)]

\* The continuation of `await processVideo(...)` once the promise is settled as `how`,
\* with the file system `fs`: the values it leaves for request r.
Continue(r, how, u, fs) ==
    IF how = "rejected"
    THEN [pc |-> AfterFailure, resp |-> 500, files |-> fs,
          inUnlink |-> inUnlink[r], sentPath |-> sentPath[r]]
    ELSE IF UnlinkOk(fs, InP(r), u)
    THEN [pc |-> "sending", resp |-> 0,
          files |-> [fs EXCEPT ![InP(r)] = "absent"],
          inUnlink |-> inUnlink[r] + 1, sentPath |-> OutP(r)]
    ELSE IF GuardedUnlink(route[r])
    THEN [pc |-> "sending", resp |-> 0, files |-> fs,
          inUnlink |-> inUnlink[r] + 1, sentPath |-> OutP(r)]
    ELSE [pc |-> AfterFailure, resp |-> 500, files |-> fs,
          inUnlink |-> inUnlink[r] + 1, sentPath |-> sentPath[r]]

\* a server that takes no request while a transcode runs
ArrivesWhenNoJobRuns(r, rt) ==
    /\ ~crashed
    /\ pc[r] = "idle"
    /\ rt \in RoutesOf(server)
    /\ \A q \in Reqs : q < r => pc[q] # "idle"
    /\ \A q \in Reqs : promise[q] # "pending"

\* a request can arrive: the process runs, the route is mounted, and (to fix the
\* numbering) requests arrive in the order of their ids
Arrives(r, rt) ==
    /\ ~crashed
    /\ pc[r] = "idle"
    /\ rt \in RoutesOf(server)
    /\ \A q \in Reqs : q < r => pc[q] # "idle"

\* fileFilter called back with an Error: multer stores nothing and passes the error
\* on to the error handling middleware
RejectFilter(r, rt) ==
    /\ Arrives(r, rt)
    /\ "filtered" \in Outcomes(rt)
    /\ pc' = [pc EXCEPT ![r] = "rejected"]
    /\ route' = [route EXCEPT ![r] = rt]
    /\ resp' = [resp EXCEPT ![r] = ErrorMiddleware(FilterError)]
    /\ UNCHANGED <<server, call, probeFailed, suffix, files, promise, monitorVars,
                   sentPath, deliv, inUnlink, outUnlink, transcodes, terminals,
                   endContent, crashed>>

\* The file passed fileSize while disk storage was writing it under the name from
\* storage.filename: multer stops, unlinks what it stored (u: that unlink works) and
\* passes MulterError LIMIT_FILE_SIZE on to the error handling middleware.
RejectLimitDisk(r, rt, s, u) ==
    /\ Arrives(r, rt)
    /\ DiskStorage(rt)
    /\ "tooLarge" \in Outcomes(rt)
    /\ \A t \in Suffixes : t < s => \E q \in Reqs : suffix[q] = t
    /\ pc' = [pc EXCEPT ![r] = "rejected"]
    /\ route' = [route EXCEPT ![r] = rt]
    /\ suffix' = [suffix EXCEPT ![r] = s]
    /\ files' = [files EXCEPT ![InputPath(rt, s)] = IF u THEN "absent" ELSE "partial"]
    /\ resp' = [resp EXCEPT ![r] = ErrorMiddleware(LimitError)]
    /\ UNCHANGED <<server, call, probeFailed, promise, monitorVars,
                   sentPath, deliv, inUnlink, outUnlink, transcodes, terminals,
                   endContent, crashed>>

\* the same with memoryStorage: the buffer is dropped, nothing is written to uploads/
RejectLimitMemory(r, rt) ==
    /\ Arrives(r, rt)
    /\ ~DiskStorage(rt)
    /\ "tooLarge" \in Outcomes(rt)
    /\ pc' = [pc EXCEPT ![r] = "rejected"]
    /\ route' = [route EXCEPT ![r] = rt]
    /\ resp' = [resp EXCEPT ![r] = ErrorMiddleware(LimitError)]
    /\ UNCHANGED <<server, call, probeFailed, suffix, files, promise, monitorVars,
                   sentPath, deliv, inUnlink, outUnlink, transcodes, terminals,
                   endContent, crashed>>

\* without the test of req.file: req.file.path throws a TypeError and the handler's
\* catch answers 500
EntryStatusNoTest(hasFile) == IF hasFile THEN 0 ELSE 500

\* the status the handler's first statement answers with, 0 when it answers nothing:
\* if (!req.file) return res.status(400).json(...)
EntryStatus(hasFile) == IF hasFile THEN 0 ELSE 400

\* The request carried no file part named 'video' (or no multipart body at all): multer
\* stores nothing and leaves req.file undefined, and the handler returns at
\* if (!req.file) with res.status(400).json({ error: ... }).
RejectNoFile(r, rt) ==
    /\ Arrives(r, rt)
    /\ pc' = [pc EXCEPT ![r] = "noFile"]
    /\ route' = [route EXCEPT ![r] = rt]
    /\ resp' = [resp EXCEPT ![r] = EntryStatus(FALSE)]
    /\ UNCHANGED <<server, call, probeFailed, suffix, files, promise, monitorVars,
                   sentPath, deliv, inUnlink, outUnlink, transcodes, terminals,
                   endContent, crashed>>

\* multer accepted the file (some upload that passes the boundary of the route) and
\* the handler computed its paths
Accept(r, rt, s) ==
    /\ Arrives(r, rt)
    /\ "accepted" \in Outcomes(rt)
    /\ \A t \in Suffixes : t < s => \E q \in Reqs : suffix[q] = t
    /\ pc' = [pc EXCEPT ![r] = "probeInfo"]
    /\ route' = [route EXCEPT ![r] = rt]
    /\ suffix' = [suffix EXCEPT ![r] = s]
    /\ files' = [files EXCEPT ![InputPath(rt, s)] = "complete"]
    /\ UNCHANGED <<server, call, probeFailed, promise, monitorVars, resp, sentPath, deliv,
                   inUnlink, outUnlink, transcodes, terminals, endContent, crashed>>

ProbeNextIgnoreError(ok, next) == next

\* `await getVideoInfo(...)` / `await getVideoDuration(...)` inside the try of
\* processVideo and of the handler: a rejection is rethrown to the handler's catch
ProbeNext(ok, next) == IF ok THEN next ELSE AfterFailure

\* getVideoInfo / getVideoDimensions: ffprobe calls back
ProbeInfo(r, ok) ==
    /\ ~crashed
    /\ pc[r] = "probeInfo"
    /\ pc' = [pc EXCEPT ![r] = ProbeNext(ok, "probeDuration")]
    /\ resp' = [resp EXCEPT ![r] = IF pc'[r] = AfterFailure THEN 500 ELSE @]
    /\ probeFailed' = [probeFailed EXCEPT ![r] = ~ok]
    /\ UNCHANGED <<server, call, route, suffix, files, promise, monitorVars,
                   sentPath, deliv, inUnlink, outUnlink, transcodes, terminals,
                   endContent, crashed>>

\* getVideoDuration: ffprobe calls back; on success the command is built and saved
ProbeDuration(r, ok) ==
    /\ ~crashed
    /\ pc[r] = "probeDuration"
    /\ pc' = [pc EXCEPT ![r] = ProbeNext(ok, "processing")]
    /\ probeFailed' = [probeFailed EXCEPT ![r] = @ \/ ~ok]
    /\ IF pc'[r] = "processing"
       THEN /\ promise' = [promise EXCEPT ![r] = "pending"]
            /\ transcodes' = [transcodes EXCEPT ![r] = @ + 1]
            /\ UNCHANGED resp
       ELSE /\ resp' = [resp EXCEPT ![r] = 500]
            /\ UNCHANGED <<promise, transcodes>>
    /\ UNCHANGED <<server, call, route, suffix, files, monitorVars,
                   sentPath, deliv, inUnlink, outUnlink, terminals,
                   endContent, crashed>>

\* The turn of the event loop that settles the promise also runs the continuation
\* of the handler's await; a settled promise ignores later resolve/reject calls.
Resume(r, how, u, fs) ==
    /\ promise' = [promise EXCEPT ![r] = Settle(@, how)]
    /\ IF promise[r] = "pending"
       THEN LET k == Continue(r, how, u, fs) IN
            /\ pc' = [pc EXCEPT ![r] = k.pc]
            /\ resp' = [resp EXCEPT ![r] = k.resp]
            /\ files' = k.files
            /\ inUnlink' = [inUnlink EXCEPT ![r] = k.inUnlink]
            /\ sentPath' = [sentPath EXCEPT ![r] = k.sentPath]
       ELSE /\ files' = fs
            /\ UNCHANGED <<pc, resp, inUnlink, sentPath>>

\* ---- the transcoder's events ----------------------------------------------
\* one monitor for the whole module
MonitorOfModule(r) == 1

\* errorOccurred, lastProgress and progressTimeout are declared with let inside the
\* executor of the promise processVideo returns: every call has its own
MonitorOf(r) == r

\* a command exists for r and the transcoder may still emit an event
CanEmit(r) ==
    /\ ~crashed
    /\ transcodes[r] > 0

\* what the transcoder leaves at the output path with its first terminal event
Written(r, c) ==
    IF FirstTerminal(r) = "none" /\ c # "absent"
    THEN [files EXCEPT ![OutP(r)] = c] ELSE files

\* the transcoder process was spawned and has not ended yet
ProcessAlive(r) == started[r] /\ terminals[r] = <<>>

ClearInterval(t) == IF t = "active" THEN "cleared" ELSE t

\* .on('start'): arm the watchdog interval ('start' comes with the spawn, so never
\* after a clean 'end')
Start(r) ==
    /\ CanEmit(r)
    /\ HasMonitor(route[r])
    /\ ~started[r]
    /\ FirstTerminal(r) # "end"
    /\ started' = [started EXCEPT ![r] = TRUE]
    /\ timer' = [timer EXCEPT ![MonitorOf(r)] = "active"]
    /\ progSince' = [progSince EXCEPT ![r] = FALSE]
    /\ UNCHANGED <<server, call, probeFailed, pc, route, suffix, files, promise, errorOccurred, lastProgress,
                   tickBit, probed, resp, sentPath, deliv, inUnlink, outUnlink,
                   transcodes, terminals, endContent, crashed>>

\* .on('progress'): lastProgress = progress.percent when it is defined
Progress(r, defined, p) ==
    /\ CanEmit(r)
    /\ ProcessAlive(r)
    /\ ~defined => p = 0
    /\ HasMonitor(route[r])
    /\ lastProgress' = [lastProgress EXCEPT ![MonitorOf(r)] = IF defined THEN p ELSE @]
    /\ progSince' = [progSince EXCEPT ![r] = TRUE]
    /\ UNCHANGED <<server, call, probeFailed, pc, route, suffix, files, promise, errorOccurred, timer, started,
                   tickBit, probed, resp, sentPath, deliv, inUnlink, outUnlink,
                   transcodes, terminals, endContent, crashed>>

\* .on('stderr'): logs the line
Stderr(r) ==
    /\ CanEmit(r)
    /\ ProcessAlive(r)
    /\ HasMonitor(route[r])
    /\ UNCHANGED <<server, call, probeFailed, pc, route, suffix, files, promise, monitorVars, resp,
                   sentPath, deliv, inUnlink, outUnlink, transcodes, terminals,
                   endContent, crashed>>

\* .on('error'): errorOccurred = true; clearInterval; reject(err)
Error(r, c) ==
    /\ CanEmit(r)
    /\ c \in {"absent", "empty", "partial"}
    /\ FirstTerminal(r) # "none" => c = "absent"
    /\ terminals' = [terminals EXCEPT ![r] = Noted(@, "error")]
    /\ IF HasMonitor(route[r])
       THEN /\ errorOccurred' = [errorOccurred EXCEPT ![MonitorOf(r)] = TRUE]
            /\ timer' = [timer EXCEPT ![MonitorOf(r)] = ClearInterval(@)]
       ELSE UNCHANGED <<errorOccurred, timer>>
    /\ Resume(r, "rejected", FALSE, Written(r, c))
    /\ UNCHANGED <<server, call, probeFailed, route, suffix, lastProgress, started, progSince, tickBit, probed,
                   deliv, outUnlink, transcodes, endContent, crashed>>

ValidateNone(c) == "resolved"

\* 'end' handler of the monitor: existsSync(outputPath) and statSync(outputPath).size
Validate(c) == IF c \in {"absent", "empty"} THEN "rejected" ELSE "resolved"

\* .on('end'): clearInterval; return if errorOccurred; validate the output; resolve/reject
End(r, c, u) ==
    /\ CanEmit(r)
    /\ HasMonitor(route[r]) => started[r]
    /\ c \in {"absent", "empty", "complete"}
    /\ FirstTerminal(r) # "none" => c = "absent"
    /\ promise[r] # "pending" => u
    /\ terminals' = [terminals EXCEPT ![r] = Noted(@, "end")]
    /\ LET fs == Written(r, c) IN
       IF HasMonitor(route[r])
       THEN /\ timer' = [timer EXCEPT ![MonitorOf(r)] = ClearInterval(@)]
            /\ IF errorOccurred[r]
               THEN /\ files' = fs
                    /\ UNCHANGED <<promise, pc, resp, inUnlink, sentPath, endContent>>
               ELSE /\ endContent' = [endContent EXCEPT ![r] =
                                          IF @ = "none" THEN fs[OutP(r)] ELSE @]
                    /\ Resume(r, Validate(fs[OutP(r)]), u, fs)
       ELSE /\ Resume(r, "resolved", u, fs)
            /\ UNCHANGED <<timer, endContent>>
    /\ UNCHANGED <<server, call, probeFailed, route, suffix, errorOccurred, lastProgress, started, progSince,
                   tickBit, probed, deliv, outUnlink, transcodes, crashed>>

\* the watchdog's test for a stall: if (lastProgress === 0)
StallDetected(r) == lastProgress[r] = 0

\* the setInterval callback: warn and stat the input when the stall test holds;
\* fs.statSync throws on a missing file and nothing catches it
Tick(r) ==
    /\ ~crashed
    /\ timer[r] = "active"
    /\ progSince' = [progSince EXCEPT ![r] = FALSE]
    /\ tickBit' = [tickBit EXCEPT ![r] = 1 - @]
    /\ probed' = [probed EXCEPT ![r] = StallDetected(r)]
    /\ crashed' = (StallDetected(r) /\ files[InP(r)] = "absent")
    /\ UNCHANGED <<server, call, probeFailed, pc, route, suffix, files, promise, errorOccurred, lastProgress,
                   timer, started, resp, sentPath, deliv, inUnlink, outUnlink,
                   transcodes, terminals, endContent>>

\* ---- delivery ---------------------------------------------------------------
\* res.sendFile found the file and wrote the 200 head (Content-Type: video/mp4)
SendHeaders(r) ==
    /\ ~crashed
    /\ pc[r] = "sending"
    /\ files[sentPath[r]] # "absent"
    /\ pc' = [pc EXCEPT ![r] = "streaming"]
    /\ resp' = [resp EXCEPT ![r] = 200]
    /\ UNCHANGED <<server, call, probeFailed, route, suffix, files, promise, monitorVars,
                   sentPath, deliv, inUnlink, outUnlink, transcodes, terminals,
                   endContent, crashed>>

\* sendFile calls back with an error before anything was written (ENOENT, ...):
\* res.status(500).json(...)
SendFailEarly(r) ==
    /\ ~crashed
    /\ pc[r] = "sending"
    /\ pc' = [pc EXCEPT ![r] = "done"]
    /\ resp' = [resp EXCEPT ![r] = 500]
    /\ deliv' = [deliv EXCEPT ![r] = "failed"]
    /\ UNCHANGED <<server, call, probeFailed, route, suffix, files, promise, monitorVars,
                   sentPath, inUnlink, outUnlink, transcodes, terminals,
                   endContent, crashed>>

\* sendFile calls back with an error after the head was written (aborted, read error):
\* res.status(500) ... json() throws ERR_HTTP_HEADERS_SENT inside the callback
SendFailLate(r) ==
    /\ ~crashed
    /\ pc[r] = "streaming"
    /\ pc' = [pc EXCEPT ![r] = "done"]
    /\ deliv' = [deliv EXCEPT ![r] = "failed"]
    /\ crashed' = TRUE
    /\ UNCHANGED <<server, call, probeFailed, route, suffix, files, promise, monitorVars, resp,
                   sentPath, inUnlink, outUnlink, transcodes, terminals, endContent>>

\* sendFile calls back without error: fs.unlinkSync(outputPath), inside try/catch
\* only on the current /upload
SendOk(r, u) ==
    /\ ~crashed
    /\ pc[r] = "streaming"
    /\ pc' = [pc EXCEPT ![r] = "done"]
    /\ deliv' = [deliv EXCEPT ![r] = "ok"]
    /\ outUnlink' = [outUnlink EXCEPT ![r] = @ + 1]
    /\ IF UnlinkOk(files, OutP(r), u)
       THEN /\ files' = [files EXCEPT ![OutP(r)] = "absent"]
            /\ UNCHANGED crashed
       ELSE /\ UNCHANGED files
            /\ crashed' = ~GuardedUnlink(route[r])
    /\ UNCHANGED <<server, call, probeFailed, route, suffix, promise, monitorVars, resp,
                   sentPath, inUnlink, transcodes, terminals, endContent>>

Next ==
    \/ \E r \in Reqs, rt \in Routes, s \in Suffixes : Accept(r, rt, s)
    \/ \E r \in Reqs, rt \in Routes : RejectFilter(r, rt)
    \/ \E r \in Reqs, rt \in Routes, s \in Suffixes, u \in BOOLEAN :
           RejectLimitDisk(r, rt, s, u)
    \/ \E r \in Reqs, rt \in Routes : RejectLimitMemory(r, rt)
    \/ \E r \in Reqs, rt \in Routes : RejectNoFile(r, rt)
    \/ \E r \in Reqs, ok \in BOOLEAN : ProbeInfo(r, ok)
    \/ \E r \in Reqs, ok \in BOOLEAN : ProbeDuration(r, ok)
    \/ \E r \in Reqs : Start(r)
    \/ \E r \in Reqs, d \in BOOLEAN, p \in Percents : Progress(r, d, p)
    \/ \E r \in Reqs : Stderr(r)
    \/ \E r \in Reqs, c \in Contents \ {"complete"} : Error(r, c)
    \/ \E r \in Reqs, c \in Contents \ {"partial"}, u \in BOOLEAN : End(r, c, u)
    \/ \E r \in Reqs : Tick(r)
    \/ \E r \in Reqs : SendHeaders(r)
    \/ \E r \in Reqs : SendFailEarly(r)
    \/ \E r \in Reqs : SendFailLate(r)
    \/ \E r \in Reqs, u \in BOOLEAN : SendOk(r, u)

Spec == Init /\ [][Next]_vars

\* ---- the resolver and the prober applied to every input ---------------------
\* Each behaviour applies one of the functions once, to any input.
\* processVideo selects the frame for a request of route rt with form fields body
ResolveFrame(rt, body) ==
    /\ call = NoCall
    /\ rt \in RoutesOf(server)
    /\ call' = [fn |-> "framePath", route |-> rt, arg |-> body, out |-> framePath(rt, body)]
    /\ UNCHANGED pipelineVars

\* the handler selects the audio track
ResolveAudio(rt, body) ==
    /\ call = NoCall
    /\ rt \in RoutesOf(server)
    /\ call' = [fn |-> "audioPath", route |-> rt, arg |-> body, out |-> audioPath(rt, body)]
    /\ UNCHANGED pipelineVars

\* ffprobe called back getVideoInfo with (err, metadata)
ProbeVideoInfo(rt, md) ==
    /\ call = NoCall
    /\ rt \in RoutesOf(server)
    /\ call' = [fn |-> "getVideoInfo", route |-> rt, arg |-> md, out |-> getVideoInfo(rt, md)]
    /\ UNCHANGED pipelineVars

\* ffprobe called back getVideoDuration with (err, metadata)
ProbeVideoDuration(rt, md) ==
    /\ call = NoCall
    /\ rt \in RoutesOf(server)
    /\ call' = [fn |-> "getVideoDuration", route |-> rt, arg |-> md,
                out |-> getVideoDuration(rt, md)]
    /\ UNCHANGED pipelineVars

\* the transcoder ran the command of processVideo on a video of v seconds with a track
\* of a seconds
Transcode(cmd, v, a) ==
    /\ call = NoCall
    /\ cmd \in CommandsOf(server)
    /\ call' = [fn |-> "processVideo", route |-> cmd, arg |-> [video |-> v, audio |-> a],
                out |-> OutputDuration(cmd, v, a)]
    /\ UNCHANGED pipelineVars

NextFn ==
    \/ \E rt \in Routes, body \in Bodies : ResolveFrame(rt, body)
    \/ \E rt \in Routes, body \in Bodies : ResolveAudio(rt, body)
    \/ \E rt \in Routes, md \in Metadatas : ProbeVideoInfo(rt, md)
    \/ \E rt \in Routes, md \in Metadatas : ProbeVideoDuration(rt, md)
    \/ \E cmd \in Commands, v \in Durations, a \in Durations : Transcode(cmd, v, a)

SpecFn == Init /\ [][NextFn]_vars

TypeOK ==
    /\ server \in Servers
    /\ pc \in [Reqs -> {"idle", "probeInfo", "probeDuration", "processing",
                        "sending", "streaming", "done", "rejected", "noFile"}]
    /\ route \in [Reqs -> Routes \cup {"none"}]
    /\ files \in [AllPaths -> Contents]
    /\ promise \in [Reqs -> {"none", "pending", "resolved", "rejected"}]
    /\ resp \in [Reqs -> {0, 200, 400, 500}]
    /\ deliv \in [Reqs -> {"none", "ok", "failed"}]
    /\ crashed \in BOOLEAN

\* ---- vocabulary of the properties -------------------------------------------
Accepted(r) == route[r] # "none" /\ pc[r] \notin {"rejected", "noFile"}
Finished(r) == pc[r] = "done"
Leftover(c) == c \in {"empty", "partial"}
\* the requests for which a file name was drawn: their paths are defined
Named(r) == route[r] # "none" /\ suffix[r] # 0

\* ---- C1 ---------------------------------------------------------------------
\* C1: every finished request has attempted to delete its input file, and its
\* output file when one exists at its output path.
C1_CleanupOnEveryExit ==
    \A r \in Reqs :
        Finished(r) =>
            /\ inUnlink[r] >= 1
            /\ files[OutP(r)] # "absent" => outUnlink[r] >= 1

\* ---- C2 ---------------------------------------------------------------------
\* C2 as stated: after a successful transcode and a successful delivery (in a
\* process that is still running) there was one transcode, one deletion of each
\* file, and neither file remains.
C2_NoFileRemains ==
    \A r \in Reqs :
        (promise[r] = "resolved" /\ deliv[r] = "ok" /\ ~crashed) =>
            /\ transcodes[r] = 1
            /\ inUnlink[r] = 1 /\ outUnlink[r] = 1
            /\ files[InP(r)] = "absent" /\ files[OutP(r)] = "absent"

\* C2 amended: after a successful transcode and a successful delivery there was
\* exactly one transcode and exactly one unlink call for the input and one for the
\* output; the input is unlinked only after the transcoder finished with 'end' and
\* the promise resolved, the output only after sendFile reported full transmission.
C2_DeletedOnceAfterLastUse ==
    \A r \in Reqs :
        /\ (promise[r] = "resolved" /\ deliv[r] = "ok") =>
               (transcodes[r] = 1 /\ inUnlink[r] = 1 /\ outUnlink[r] = 1)
        /\ inUnlink[r] <= 1 /\ outUnlink[r] <= 1
        /\ inUnlink[r] = 1 => (promise[r] = "resolved" /\ FirstTerminal(r) = "end")
        /\ outUnlink[r] = 1 => (deliv[r] = "ok" /\ inUnlink[r] = 1)

\* a delivered request of which both files are gone
C2_Witness ==
    \E r \in Reqs :
        /\ promise[r] = "resolved" /\ deliv[r] = "ok"
        /\ inUnlink[r] = 1 /\ outUnlink[r] = 1
        /\ files[InP(r)] = "absent" /\ files[OutP(r)] = "absent"

\* ---- C3 ---------------------------------------------------------------------
\* C3: when sendFile calls back with an error the client is answered 500 and the
\* deletion of the output file has been attempted.
C3_DeliveryFailureCleansUp ==
    \A r \in Reqs :
        deliv[r] = "failed" => (resp[r] = 500 /\ outUnlink[r] >= 1)

\* ---- C4 ---------------------------------------------------------------------
\* C4: when the transcoder fails, the finished request was answered 500 and no
\* zero-byte or partial output file is left at its output path.
C4_NoPartialOutputAfterError ==
    \A r \in Reqs :
        (Finished(r) /\ FirstTerminal(r) = "error") =>
            (resp[r] = 500 /\ ~Leftover(files[OutP(r)]))

C6_NoUncaughtException == ~crashed

\* ---- C7 ---------------------------------------------------------------------
\* C7: the outcome goes Running -> {Succeeded, Failed} at most once and then never
\* changes, whatever events follow; start, progress, stderr events and watchdog
\* ticks never change it.
C7_OutcomeSetOnce ==
    [][\A r \in Reqs :
          /\ promise[r] \in {"resolved", "rejected"} => promise'[r] = promise[r]
          /\ promise[r] = "pending" => promise'[r] \in {"pending", "resolved", "rejected"}
          /\ (\/ Tick(r) \/ Start(r) \/ Stderr(r)
              \/ \E d \in BOOLEAN, p \in Percents : Progress(r, d, p))
                 => promise'[r] = promise[r]]_vars

\* an 'end' arrived after the 'error' that failed the job, after a stall warning
C7_Witness ==
    \E r \in Reqs :
        /\ terminals[r] = <<"error", "end">>
        /\ promise[r] = "rejected" /\ errorOccurred[r]
        /\ probed[r]

\* ---- C8 ---------------------------------------------------------------------
\* C8: a watchdog tick of a Running job whose interval saw no progress event logs
\* the warning and probes the input, and the job stays Running.
C8_StallProbedAtEveryQuietTick ==
    [][\A r \in Reqs :
          (Tick(r) /\ Outcome(r) = "Running" /\ ~progSince[r])
              => (probed'[r] /\ promise'[r] = "pending")]_vars

\* ---- C9 ---------------------------------------------------------------------
\* C9: the transcoder is started at most once per request, whatever the outcome.
C9_AtMostOneTranscode ==
    \A r \in Reqs : transcodes[r] <= 1

\* a request that failed after its transcoder had been started
C9_Witness ==
    \E r \in Reqs :
        Finished(r) /\ resp[r] = 500 /\ transcodes[r] = 1

AllowedExtensions == {<<".">> \o t : t \in Filetypes}

\* a MIME type of the video/ family
VideoMime(m) == Len(m) > 6 /\ SubSeq(m, 1, 6) = <<"v","i","d","e","o","/">>

\* an upload with an allow-listed extension and a video MIME type
IsVideoUpload(up) ==
    /\ ToLowerCase(ExtName(up.originalname)) \in AllowedExtensions
    /\ VideoMime(up.mimetype)

\* request r arrives on route rt with upload up (s: the suffix drawn for its file,
\* u: whether multer can unlink what it stored)
Arrival(r, rt, s, up, u) ==
    \/ Boundary(rt, up) = "accepted" /\ Accept(r, rt, s)
    \/ Boundary(rt, up) = "filtered" /\ RejectFilter(r, rt)
    \/ Boundary(rt, up) = "tooLarge" /\ RejectLimitDisk(r, rt, s, u)
    \/ Boundary(rt, up) = "tooLarge" /\ RejectLimitMemory(r, rt)

\* the requests that have not arrived yet
Waiting == {r \in Reqs : pc[r] = "idle"}

\* C11: on every route an upload whose extension is not allow-listed or whose MIME
\* type is not a video type is rejected with 400, and it never enters the pipeline
\* (no probe, no transcode).
C11_NonVideoRejectedWith400 ==
    [][\A r \in Waiting, rt \in Routes, s \in Suffixes, up \in Uploads, u \in BOOLEAN :
          (~IsVideoUpload(up) /\ Arrival(r, rt, s, up, u))
              => (pc'[r] = "rejected" /\ resp'[r] = 400)]_vars

\* ---- C12 --------------------------------------------------------------------
\* C12: a video upload larger than the 100 MiB ceiling is rejected with 400, never
\* enters the pipeline, and the step leaves no path of uploads/ with new content.
C12_OversizedRejectedNothingLeft ==
    [][\A r \in Waiting, rt \in Routes, s \in Suffixes, up \in Uploads, u \in BOOLEAN :
          (IsVideoUpload(up) /\ up.size > FileSizeLimit /\ Arrival(r, rt, s, up, u))
              => /\ pc'[r] = "rejected" /\ resp'[r] = 400
                 /\ \A p \in AllPaths : files'[p] = files[p] \/ files'[p] = "absent"]_vars

\* ---- C13 --------------------------------------------------------------------
\* C13: a request whose probe failed (ffprobe error or no video stream) is answered
\* 500 and its handler has ended without ever starting the transcoder.
C13_ProbeFailureAborts ==
    \A r \in Reqs :
        probeFailed[r] =>
            /\ resp[r] = 500 /\ Finished(r)
            /\ transcodes[r] = 0 /\ promise[r] = "none"

\* a probe failed for one request while the transcoder was started for another
C13_Witness ==
    \E r, q \in Reqs :
        /\ probeFailed[r] /\ resp[r] = 500
        /\ ~probeFailed[q] /\ transcodes[q] = 1

\* ---- C14 --------------------------------------------------------------------
\* C14: when the transcode succeeded and deleting the input failed (the file is
\* still there after the unlinkSync call), the handler went on to sendFile: the
\* failed deletion did not turn the response into a 500.
C14_UnlinkFailureNotEscalated ==
    \A r \in Reqs :
        (promise[r] = "resolved" /\ inUnlink[r] >= 1 /\ files[InP(r)] # "absent") =>
            /\ sentPath[r] = OutP(r)
            /\ ~(resp[r] = 500 /\ deliv[r] = "none")

\* ---- C15 --------------------------------------------------------------------
\* C15: two accepted uploads never have the same input path or the same output path.
C15_PathsNeverShared ==
    \A r, q \in Reqs :
        (r # q /\ Accepted(r) /\ Accepted(q)) =>
            (InP(r) # InP(q) /\ OutP(r) # OutP(q))

\* ---- C16 --------------------------------------------------------------------
\* the request declares the desktop device class in the route's device field
DeclaresDesktop(rt, body) ==
    IF rt = "upload" THEN body.isDesktop = "true" ELSE body.isMobile = "false"

\* C16: on every route the frame is the desktop frame exactly when the request
\* declares the desktop class, and the mobile frame otherwise (so with the field
\* absent or unrecognised).
C16_DesktopExactlyWhenDeclared ==
    call.fn = "framePath" =>
        /\ call.out = FrameDesktop <=> DeclaresDesktop(call.route, call.arg)
        /\ call.out # FrameDesktop => call.out = FrameMobile

\* ---- C17 --------------------------------------------------------------------
\* C17: for every audioId the resolver returns the path of an audio asset, and for
\* every id that the route does not know it returns the route's default track.
C17_UnknownAudioGetsDefault ==
    call.fn = "audioPath" =>
        /\ call.out \in AudioAssets
        /\ call.arg.audioId \notin KnownAudioIds(call.route) =>
               call.out = IF call.route = "blob" THEN "assets/audio/tractor_ace.wav"
                          ELSE "assets/audio/jingle-dummy.wav"

\* an id outside the known ones was resolved on the route whose known ids have
\* tracks of their own
C17_Witness ==
    /\ call.fn = "audioPath" /\ call.route = "blob"
    /\ call.arg.audioId = "6"
    /\ call.out = "assets/audio/tractor_ace.wav"

\* ---- C18 --------------------------------------------------------------------
\* C18: for a rotation tag of 90 or 270 the probe returns the native height as
\* width and the native width as height, and the frame is scaled to those.
C18_RotatedDimensionsSwapped ==
    (call.fn = "getVideoInfo" /\ call.out.status = "resolved"
        /\ call.arg.rotate \in {"90", "270"}) =>
            /\ call.out.width = call.arg.height
            /\ call.out.height = call.arg.width
            /\ ScaleOptions(call.out) = [w |-> call.arg.height, h |-> call.arg.width]

\* ---- C19 --------------------------------------------------------------------
\* C19: for a rotation tag of 0 or none the probe returns the native width and
\* height unchanged.
C19_UnrotatedDimensionsNative ==
    (call.fn = "getVideoInfo" /\ call.out.status = "resolved"
        /\ call.arg.rotate \in {Undefined, "0"}) =>
            /\ call.out.width = call.arg.width
            /\ call.out.height = call.arg.height

\* a video without rotation tag that is not square was probed
C19_Witness ==
    /\ call.fn = "getVideoInfo" /\ call.out.status = "resolved"
    /\ call.arg.rotate = Undefined
    /\ call.arg.width # call.arg.height

\* ---- C20 --------------------------------------------------------------------
\* the stream's duration is present and a finite number
FiniteDuration(d) == d \notin {Undefined, "N/A"}

\* C20: on every route the probed duration is the stream's duration when that is
\* present and finite, and the container's duration otherwise.
C20_StreamDurationElseContainer ==
    (call.fn = "getVideoDuration" /\ call.out.status = "resolved") =>
        call.out.duration = IF FiniteDuration(call.arg.duration)
                            THEN call.arg.duration
                            ELSE call.arg.format_duration

\* ---- C21 --------------------------------------------------------------------
\* the commands that replace the video's audio with the track, and the one that mixes
ReplacesAudio(cmd) == cmd \in {"upload", "uploadV1", "blob"}
MixesAudio(cmd) == cmd = "blobMix"

\* C21: the output of a replace-audio command lasts min(video, track) seconds and the
\* output of the mixing command lasts max(video, track) seconds.
C21_ShortestOrLongestDuration ==
    call.fn = "processVideo" =>
        /\ ReplacesAudio(call.route) =>
               call.out = MinD(call.arg.video, call.arg.audio)
        /\ MixesAudio(call.route) =>
               call.out = MaxD(call.arg.video, call.arg.audio)

\* ---- C22 --------------------------------------------------------------------
\* What the environment owes an accepted request: each probe calls back, the
\* transcoder is spawned and emits 'error' or 'end', sendFile finds the file or fails,
\* and the delivery calls back.  Node runs a callback that is ready.
Fairness ==
    \A r \in Reqs :
        /\ WF_vars(\E ok \in BOOLEAN : ProbeInfo(r, ok))
        /\ WF_vars(\E ok \in BOOLEAN : ProbeDuration(r, ok))
        /\ WF_vars(Start(r))
        /\ WF_vars(\/ \E c \in Contents : Error(r, c)
                   \/ \E c \in Contents, u \in BOOLEAN : End(r, c, u))
        /\ WF_vars(SendHeaders(r) \/ SendFailEarly(r))
        /\ WF_vars(SendFailLate(r) \/ \E u \in BOOLEAN : SendOk(r, u))

SpecLive == Spec /\ Fairness

\* the client of r has its answer: the video with status 200, or a JSON error
Answered(r) == Finished(r) /\ resp[r] \in {200, 500}

\* C22: every accepted request is eventually answered.
C22_AcceptedEventuallyAnswered ==
    \A r \in Reqs : Accepted(r) ~> Answered(r)

\* ---- C23 --------------------------------------------------------------------
\* the job of r is Running
Running(r) == Outcome(r) = "Running"

\* the next request to arrive
NextToArrive(r) == pc[r] = "idle" /\ \A p \in Reqs : p < r => pc[p] # "idle"

\* C23: while the job of one request is Running, every step of another request is
\* possible: it can be accepted, its probes can call back, its transcoder can be
\* spawned and can end, its file can be sent and the delivery can complete.
C23_RunningJobBlocksNoRequest ==
    \A r, q \in Reqs :
        (r # q /\ Running(q) /\ ~crashed) =>
            /\ NextToArrive(r) =>
                   \E rt \in RoutesOf(server), s \in Suffixes : ENABLED Accept(r, rt, s)
            /\ pc[r] = "probeInfo" => ENABLED ProbeInfo(r, TRUE)
            /\ pc[r] = "probeDuration" => ENABLED ProbeDuration(r, TRUE)
            /\ Running(r) => (ENABLED Start(r) \/ ENABLED End(r, "complete", TRUE))
            /\ pc[r] = "sending" => (ENABLED SendHeaders(r) \/ ENABLED SendFailEarly(r))
            /\ pc[r] = "streaming" => ENABLED SendOk(r, TRUE)

\* two jobs are Running at once and the one of the request that arrived second can
\* end first
C23_Witness ==
    /\ Running(1) /\ Running(2)
    /\ ~crashed
    /\ ENABLED End(2, "complete", TRUE)

\* ---- C24 --------------------------------------------------------------------
\* the file names of r and q differ: so do their input paths and their output paths
DistinctNames(r, q) == InP(r) # InP(q) /\ OutP(r) # OutP(q)

\* an event of request r: of its transcoder, of its watchdog or of its delivery
Event(r) ==
    \/ Start(r)
    \/ \E d \in BOOLEAN, p \in Percents : Progress(r, d, p)
    \/ Stderr(r)
    \/ \E c \in Contents : Error(r, c)
    \/ \E c \in Contents, u \in BOOLEAN : End(r, c, u)
    \/ Tick(r)
    \/ SendHeaders(r)
    \/ SendFailEarly(r)
    \/ SendFailLate(r)
    \/ \E u \in BOOLEAN : SendOk(r, u)

\* the step leaves the monitor, the outcome, the response and the files of q alone
Untouched(q) ==
    /\ lastProgress'[q] = lastProgress[q]
    /\ errorOccurred'[q] = errorOccurred[q]
    /\ timer'[q] = timer[q]
    /\ promise'[q] = promise[q]
    /\ resp'[q] = resp[q]
    /\ files'[InP(q)] = files[InP(q)]
    /\ files'[OutP(q)] = files[OutP(q)]

\* C24: for two requests with distinct file names, no event of one changes the
\* monitor state, the outcome, the response or the files of the other.
C24_EventsTouchOwnRequestOnly ==
    [][\A r, q \in Reqs :
          (/\ r # q
           /\ Named(r) /\ Named(q)
           /\ DistinctNames(r, q)
           /\ Event(r)) => Untouched(q)]_vars

\* two jobs with distinct file names run at once, and the monitor of one has seen
\* progress that the monitor of the other has not
C24_Witness ==
    \E r, q \in Reqs :
        /\ r # q
        /\ DistinctNames(r, q)
        /\ promise[r] = "pending" /\ promise[q] = "pending"
        /\ timer[r] = "active" /\ timer[q] = "active"
        /\ lastProgress[r] = 50 /\ lastProgress[q] = 0

\* ---- C25 --------------------------------------------------------------------
\* the request was answered by the handler's check of req.file
NoFile(r) == pc[r] = "noFile"

\* C25: a request without a file in the 'video' field is answered with 400, and in
\* answering it and ever after no file is written, no probe runs and no transcoder
\* is started for it.
C25_NoFileAnsweredWith400 ==
    [][\A r \in Reqs :
          /\ (NoFile(r)' /\ ~NoFile(r)) => (resp'[r] = 400 /\ files' = files)
          /\ NoFile(r) =>
                /\ NoFile(r)'
                /\ resp'[r] = 400
                /\ suffix'[r] = 0
                /\ ~probeFailed'[r]
                /\ promise'[r] = "none"
                /\ transcodes'[r] = 0]_vars

\* a request without a file was answered while another request's job is running
C25_Witness ==
    \E r, q \in Reqs : NoFile(r) /\ resp[r] = 400 /\ promise[q] = "pending"

\* ---- C26 --------------------------------------------------------------------
\* the transcoder of r exited cleanly and left no output file or an empty one
CleanExitInvalidOutput(r) ==
    FirstTerminal(r) = "end" /\ files[OutP(r)] \in {"absent", "empty"}

\* C26: on the transcoding blob route, when the transcoder exited cleanly but the
\* output file is missing or has zero size, the step that answers the request answers
\* it with 500, never with the 200 of the video.
C26_BlobInvalidOutputAnswered500 ==
    [][\A r \in Reqs :
          (/\ route[r] = "blob"
           /\ CleanExitInvalidOutput(r)
           /\ pc[r] = "sending"
           /\ pc'[r] # "sending") => resp'[r] = 500]_vars

\* ---- C27 --------------------------------------------------------------------
\* the error branch of the sendFile callback, res.status(500).json(...), ran for r
ErrorBranchRan(r) == deliv[r] = "failed"
\* the head of r's response (status 200, Content-Type: video/mp4) is on the wire
SuccessHeadSent(r) == resp[r] = 200

\* C27: the handler never writes a status and a JSON body onto a response whose
\* success head was already sent.
C27_NoWriteOnStartedResponse ==
    \A r \in Reqs : ~(SuccessHeadSent(r) /\ ErrorBranchRan(r))

\* ---- C28 --------------------------------------------------------------------
\* C28: once the job of a request has its outcome (Succeeded or Failed), its watchdog
\* interval is not armed.
C28_WatchdogClearedAtOutcome ==
    \A r \in Reqs : Outcome(r) \in {"Succeeded", "Failed"} => timer[r] # "active"

\* ---- C29 --------------------------------------------------------------------
\* C29: the output path of a request is never the input path of any request, its own
\* or another's.
C29_OutputNeverAnInput ==
    \A r, q \in Reqs : (Named(r) /\ Named(q)) => OutP(r) # InP(q)

\* a transcoder has written its output while the upload of another request is in
\* uploads/
C29_Witness ==
    \E r, q \in Reqs :
        /\ r # q
        /\ Accepted(r) /\ Accepted(q)
        /\ FirstTerminal(r) = "end" /\ files[OutP(r)] = "complete"
        /\ promise[q] = "pending" /\ files[InP(q)] = "complete"

====
